---- MODULE Spec2Model ----
(***************************************************************************)
(* Model of the ARROW data counter (pages/1_Original.py and                *)
(* pages/Longitudinal.py): autofill (the imputer), filter_count (row       *)
(* filter and non-missing counter) and longitudinal_filter (bucketizer).   *)
(*                                                                         *)
(* A table (pandas DataFrame) is a sequence of rows.  A row is a record    *)
(* holding its index label and one cell per column.  A cell is a sequence  *)
(* of length at most one: <<>> is NaN, <<v>> is the value v.               *)
(* Numbers (age, tss, slider and bucket bounds) are kept exactly as counts *)
(* of halves, so 7.5 months is 15 and the integer 8 is Num(8) = 16.        *)
(***************************************************************************)
EXTENDS Integers, Sequences, FiniteSets

VARIABLES
    df,                       \* the table object handed to the last call (its cells now)
    before,                   \* the cells of that object when the call was made
    op,                       \* the last call: "none", "autofill", "filter_count", ...
    columns,                  \* autofill's columns argument
    cols,                     \* filter_count's cols argument (dict, in insertion order)
    only_long_term_outcomes,  \* module global read by filter_count (the checkbox)
    result_counts,            \* filter_count's first result: variable -> count
    filtered_data,            \* filter_count's second result: the filtered table
    longitudinal_counts,      \* longitudinal_filter's result
    raised                    \* exception that ended the call, or "none"

vars == <<df, before, op, columns, cols, only_long_term_outcomes,
          result_counts, filtered_data, longitudinal_counts, raised>>

----------------------------------------------------------------------------
(* Cells and numbers *)

NaN == <<>>

notna(cell) == cell # NaN

\* the integer n in the half-unit representation
Num(n) == 2 * n

\* Python int(x): truncation toward zero, result a whole number
int(x) == IF x >= 0 THEN x \div 2 ELSE -((-x) \div 2)

SetMax(S) == CHOOSE x \in S : \A y \in S : y <= x
SetMin(S) == CHOOSE x \in S : \A y \in S : x <= y

----------------------------------------------------------------------------
(* Schema *)

\* the outcome variables counted (the first two of the page's list)
variables == <<"ikdc", "marx">>

\* columns of the loaded spreadsheet that the pages use
Columns == {"record_id", "sex_dashboard", "graft_dashboard2", "prior_aclr",
            "age", "tss", "long_term_outcomes_complete", "ikdc", "marx"}

\* the column list load_and_autofill_data passes to autofill
AutofillColumns == <<"sex_dashboard", "graft_dashboard2", "prior_aclr">>

Indices(t) == 1..Len(t)

\* the index labels of a table's rows
Labels(t) == {t[i].index : i \in Indices(t)}

\* df[column] = s, for a series s on the same index
SetColumn(t, column, s) == [i \in Indices(t) |-> [t[i] EXCEPT ![column] = s[i]]]

\* df[mask]: the rows whose mask is true, in order, keeping their labels
RECURSIVE Select(_, _)
Select(t, mask) ==
    IF t = <<>> THEN <<>>
    ELSE LET rest == Select(Tail(t), [i \in 1..(Len(t) - 1) |-> mask[i + 1]])
         IN  IF mask[1] THEN <<Head(t)>> \o rest ELSE rest

\* series.notna().sum()
NotnaSum(t, column) == Cardinality({i \in Indices(t) : notna(t[i][column])})

----------------------------------------------------------------------------
(* autofill: pages/1_Original.py 58-70, pages/Longitudinal.py 58-70 *)

\* df.groupby('record_id')[column].ffill(): within each record_id group, in row
\* order, a missing cell takes the nearest preceding non-missing cell of the group
GroupFfill(t, column) ==
    [i \in Indices(t) |->
        LET js == {j \in 1..i : /\ t[j].record_id = t[i].record_id
                                /\ notna(t[j][column])}
        IN  IF js = {} THEN NaN ELSE t[SetMax(js)][column]]

\* Series.bfill(): over the whole series, whatever the group, a missing
\* cell takes the nearest following non-missing cell
Bfill(s) ==
    [i \in DOMAIN s |->
        LET js == {j \in DOMAIN s : j >= i /\ notna(s[j])}
        IN  IF js = {} THEN NaN ELSE s[SetMin(js)]]

\* one pass of the loop body: df[column] = df.groupby(...)[column].ffill().bfill()
AutofillColumn(t, column) == SetColumn(t, column, Bfill(GroupFfill(t, column)))

\* the loop over columns; a column the table lacks raises KeyError at that
\* point, the columns before it already written into df
RECURSIVE autofill(_, _)
autofill(t, cs) ==
    IF cs = <<>> THEN [df |-> t, raised |-> "none"]
    ELSE IF Head(cs) \notin Columns THEN [df |-> t, raised |-> "KeyError"]
    ELSE autofill(AutofillColumn(t, Head(cs)), Tail(cs))

----------------------------------------------------------------------------
(* Python dicts keep insertion order: a dict is a sequence of entries *)

Keys(d) == [i \in DOMAIN d |-> d[i].key]

\* d[key], for a key of d
Get(d, key) == d[CHOOSE i \in DOMAIN d : d[i].key = key].value

Range(s) == {s[i] : i \in DOMAIN s}

----------------------------------------------------------------------------
(* filter_count: pages/1_Original.py 76-104, pages/Longitudinal.py 76-104 *)

\* a faulty variant: the upper end of the range left out
BetweenHalfOpen(cell, lo, hi) == notna(cell) /\ lo <= cell[1] /\ cell[1] < hi

\* Series.between(lo, hi), one cell: both ends inclusive, NaN is False
Between(cell, lo, hi) == notna(cell) /\ lo <= cell[1] /\ cell[1] <= hi

\* Series.isin(values), one cell (the lists hold no NaN)
Isin(cell, values) == notna(cell) /\ \E k \in DOMAIN values : values[k] = cell[1]

\* a faulty variant: the rows that carry the marker themselves
LongTermRows(t) ==
    Select(t, [i \in Indices(t) |-> notna(t[i].long_term_outcomes_complete)])

\* filtered_df.groupby('record_id').filter(lambda grp:
\*     grp['long_term_outcomes_complete'].notna().sum() >= 1)
LongTermFilter(t) ==
    Select(t, [i \in Indices(t) |->
        Cardinality({j \in Indices(t) :
            /\ t[j].record_id = t[i].record_id
            /\ notna(t[j].long_term_outcomes_complete)}) >= 1])

\* the loop over cols.items(); looking up a column the table lacks raises KeyError
RECURSIVE ApplyCols(_, _)
ApplyCols(t, cs) ==
    IF cs = <<>> THEN [df |-> t, raised |-> "none"]
    ELSE LET column == Head(cs).key
             values == Head(cs).value
         IN  IF column \in {"age", "tss"}
             THEN IF column \notin Columns THEN [df |-> t, raised |-> "KeyError"]
                  ELSE ApplyCols(
                           Select(t, [i \in Indices(t) |->
                               Between(t[i][column], values[1], values[2])]),
                           Tail(cs))
             ELSE IF values # <<>>
             THEN IF column \notin Columns THEN [df |-> t, raised |-> "KeyError"]
                  ELSE ApplyCols(
                           Select(t, [i \in Indices(t) |-> Isin(t[i][column], values)]),
                           Tail(cs))
             ELSE ApplyCols(t, Tail(cs))

\* non_blank_counts = {var: filtered_df[var].notna().sum() for var in variables}
NonBlankCounts(t, vs) == [k \in DOMAIN vs |-> [key |-> vs[k], value |-> NotnaSum(t, vs[k])]]

\* filter_count(df, cols, variables), reading the global only_long_term_outcomes;
\* it works on df.copy(), so df itself is left as it is
filter_count(t, cs, vs, long_term) ==
    LET copy == t
        kept == IF long_term THEN LongTermFilter(copy) ELSE copy
        r    == ApplyCols(kept, cs)
    IN  IF r.raised # "none"
        THEN [raised |-> r.raised, counts |-> <<>>, filtered |-> <<>>]
        ELSE [raised |-> "none", counts |-> NonBlankCounts(r.df, vs), filtered |-> r.df]

----------------------------------------------------------------------------
(* longitudinal_filter: pages/Longitudinal.py 116-148 *)

\* the timepoints dict, label -> (lower, upper) in months
timepoints ==
    <<[key |-> "3-4 months",   value |-> <<Num(3), Num(5)>>],
      [key |-> "5-7 months",   value |-> <<Num(5), Num(8)>>],
      [key |-> "8-12 months",  value |-> <<Num(8), Num(13)>>],
      [key |-> "13-24 months", value |-> <<Num(13), Num(25)>>]>>

\* a faulty variant: the upper bound taken as part of the bucket
InBucketClosed(cell, tp_range) ==
    notna(cell) /\ cell[1] >= tp_range[1] /\ cell[1] <= tp_range[2]

\* (data['tss'] >= tp_range[0]) & (data['tss'] < tp_range[1]), one cell;
\* a comparison with NaN is False
InBucket(cell, tp_range) ==
    notna(cell) /\ cell[1] >= tp_range[1] /\ cell[1] < tp_range[2]

\* tp_data = data[(data['tss'] >= tp_range[0]) & (data['tss'] < tp_range[1])]
TpData(t, tp_range) == Select(t, [i \in Indices(t) |-> InBucket(t[i].tss, tp_range)])

\* a faulty variant: the result keyed by timepoint label first, by variable second
longitudinal_by_timepoint(t, tps, vs) ==
    [n \in DOMAIN tps |->
        [key |-> tps[n].key,
         value |-> [k \in DOMAIN vs |->
             [key |-> vs[k], value |-> NotnaSum(TpData(t, tps[n].value), vs[k])]]]]

\* longitudinal_counts = {var: {tp: 0 for tp in timepoints} for var in variables},
\* then longitudinal_counts[var][tp_label] = tp_data[var].notna().sum() for
\* every timepoint and variable
longitudinal_filter(t, tps, vs) ==
    [k \in DOMAIN vs |->
        [key |-> vs[k],
         value |-> [n \in DOMAIN tps |->
             [key |-> tps[n].key, value |-> NotnaSum(TpData(t, tps[n].value), vs[k])]]]]

----------------------------------------------------------------------------
(* Tables given to autofill *)

MaxRows == 3

RecordIds == {"A", "B"}

Blank ==
    [index |-> 0, record_id |-> "A", sex_dashboard |-> NaN, graft_dashboard2 |-> NaN,
     prior_aclr |-> NaN, age |-> NaN, tss |-> NaN,
     long_term_outcomes_complete |-> NaN, ikdc |-> NaN, marx |-> NaN]

\* give the rows of a table the index labels 1, 2, ... (RangeIndex)
WithIndex(t) == [i \in Indices(t) |-> [t[i] EXCEPT !.index = i]]

SeqsUpTo(S, n) == UNION {[1..k -> S] : k \in 0..n}

AutofillRows ==
    {[Blank EXCEPT !.record_id = r, !.sex_dashboard = s, !.graft_dashboard2 = g] :
        r \in RecordIds, s \in {NaN, <<"Female">>, <<"Male">>},
        g \in {NaN, <<"Other">>}}

AutofillTables == {WithIndex(t) : t \in SeqsUpTo(AutofillRows, MaxRows)}

ColumnLists ==
    {<<>>, <<"sex_dashboard">>, <<"graft_dashboard2">>,
     <<"sex_dashboard", "graft_dashboard2">>, AutofillColumns, <<"sex">>}

InitRest ==
    /\ op = "none"
    /\ columns = <<>>
    /\ cols = <<>>
    /\ only_long_term_outcomes = FALSE
    /\ result_counts = <<>>
    /\ filtered_data = <<>>
    /\ longitudinal_counts = <<>>
    /\ raised = "none"

InitAutofill ==
    /\ df \in AutofillTables
    /\ before = df
    /\ InitRest

\* data = autofill(data, columns): df is written in place and returned
Autofill ==
    \E cs \in ColumnLists :
        LET r == autofill(df, cs) IN
        /\ op' = "autofill"
        /\ columns' = cs
        /\ before' = df
        /\ df' = r.df
        /\ raised' = r.raised
        /\ UNCHANGED <<cols, only_long_term_outcomes, result_counts,
                       filtered_data, longitudinal_counts>>

NextAutofill == Autofill

SpecAutofill == InitAutofill /\ [][NextAutofill]_vars

----------------------------------------------------------------------------
(* Properties of autofill, over SpecAutofill *)

RowsOf(t, r) == {i \in Indices(t) : t[i].record_id = r}

\* the non-missing values a subject has in a column
KnownValues(t, r, column) ==
    {t[i][column] : i \in {j \in RowsOf(t, r) : notna(t[j][column])}}

AutofillReturned == op = "autofill" /\ raised = "none"

\* C1: imputation completeness.  After autofill returns, for every imputed
\* column and every subject whose non-missing values of that column (before
\* the call) are all one value v, every row of that subject shows v.
C1_Completeness ==
    AutofillReturned =>
        \A k \in 1..Len(columns) : \A r \in RecordIds :
            LET known == KnownValues(before, r, columns[k]) IN
            Cardinality(known) = 1 =>
                \A i \in RowsOf(df, r) : df[i][columns[k]] \in known

\* C2: after autofill returns, a subject that had no non-missing value of an
\* imputed column (before the call) still has that column missing on all of
\* its rows.
C2_EmptyGroupStaysMissing ==
    AutofillReturned =>
        \A k \in 1..Len(columns) : \A r \in RecordIds :
            KnownValues(before, r, columns[k]) = {} =>
                \A i \in RowsOf(df, r) : df[i][columns[k]] = NaN

\* C3: imputation idempotence.  Calling autofill again, with the same column
\* list, on the table a call of autofill returned changes no cell.
C3_Idempotent ==
    [][(AutofillReturned /\ op' = "autofill" /\ columns' = columns) => df' = df]_vars

\* C5: no call changes the table object it is given: after any call the
\* object's rows and cells are those it had when the call was made.
C5_InputNotMutated == op # "none" => df = before

----------------------------------------------------------------------------
(* Calls of filter_count *)

MaxFilterRows == 2

\* rows that differ in age, tss and ikdc
RangeRows ==
    {[Blank EXCEPT !.sex_dashboard = <<"Female">>, !.age = a, !.tss = m,
                   !.ikdc = v, !.marx = <<3>>] :
        a \in {NaN, <<38>>, <<42>>, <<43>>},
        m \in {NaN, <<15>>}, v \in {NaN, <<61>>}}

\* rows that differ in subject, long-term marker, age and sex
SubjectRows ==
    {[Blank EXCEPT !.record_id = r, !.long_term_outcomes_complete = l, !.age = a,
                   !.sex_dashboard = s, !.tss = <<15>>, !.ikdc = <<61>>] :
        r \in RecordIds, l \in {NaN, <<2>>}, a \in {<<38>>, <<42>>},
        s \in {NaN, <<"Female">>}}

FilterTables ==
    {WithIndex(t) : t \in SeqsUpTo(RangeRows, MaxFilterRows)
                        \cup SeqsUpTo(SubjectRows, MaxFilterRows)}

Entry(k, v) == [key |-> k, value |-> v]

\* the range entries of cols: none, one on age, one on tss, or both
RangeCols ==
    {<<>>,
     <<Entry("age", <<Num(19), Num(21)>>)>>,
     <<Entry("age", <<Num(21), Num(21)>>)>>,
     <<Entry("age", <<Num(21), Num(19)>>)>>,
     <<Entry("tss", <<Num(7), Num(8)>>)>>,
     <<Entry("age", <<Num(19), Num(21)>>), Entry("tss", <<Num(7), Num(8)>>)>>}

\* the value-list entry of cols: none, one on sex_dashboard, or one whose key
\* ("sex") names no column of the table
SetCols ==
    {<<>>,
     <<Entry("sex_dashboard", <<>>)>>,
     <<Entry("sex_dashboard", <<"Female">>)>>,
     <<Entry("sex", <<>>)>>,
     <<Entry("sex", <<"Female">>)>>}

InitFilter ==
    /\ df \in FilterTables
    /\ before = df
    /\ InitRest

\* result_counts, filtered_data = filter_count(df=data, cols=cols, variables=variables)
FilterCount ==
    \E rc \in RangeCols, sc \in SetCols, long_term \in BOOLEAN :
        LET r == filter_count(df, rc \o sc, variables, long_term) IN
        /\ op = "none"
        /\ op' = "filter_count"
        /\ cols' = rc \o sc
        /\ only_long_term_outcomes' = long_term
        /\ before' = df
        /\ df' = df
        /\ result_counts' = r.counts
        /\ filtered_data' = r.filtered
        /\ raised' = r.raised
        /\ UNCHANGED <<columns, longitudinal_counts>>

\* the next interaction runs the page script again from its top: the cached
\* table stays, cols is rebuilt from {} and the last results are gone
Rerun ==
    /\ op # "none"
    /\ op' = "none"
    /\ before' = df
    /\ columns' = <<>>
    /\ cols' = <<>>
    /\ only_long_term_outcomes' = FALSE
    /\ result_counts' = <<>>
    /\ filtered_data' = <<>>
    /\ longitudinal_counts' = <<>>
    /\ raised' = "none"
    /\ UNCHANGED df

NextFilter == FilterCount \/ Rerun

SpecFilter == InitFilter /\ [][NextFilter]_vars

----------------------------------------------------------------------------
(* Properties of filter_count, over SpecFilter *)

\* the index labels of the rows filter_count kept
Survivors == Labels(filtered_data)

FilterReturned == op = "filter_count" /\ raised = "none"

IsRange(e) == e.key \in {"age", "tss"}

\* lo <= value <= hi, for a non-missing value
InRange(cell, range) == notna(cell) /\ range[1] <= cell[1] /\ cell[1] <= range[2]

\* a row satisfies one entry of cols: its range, or its value list (an empty
\* list asks nothing)
Passes(row, e) ==
    IF IsRange(e) THEN InRange(row[e.key], e.value)
    ELSE e.value = <<>> \/ (notna(row[e.key]) /\ row[e.key][1] \in Range(e.value))

\* C4: a call of filter_count whose cols has a key naming no column of the
\* table ends in an error, whatever is attached to that key.
C4_SchemaError ==
    (op = "filter_count" /\ \E k \in DOMAIN cols : cols[k].key \notin Columns)
        => raised # "none"

\* C6: range predicate.  Under any cols, every row filter_count keeps lies in
\* every range of cols.  When cols holds range entries only (and the long-term
\* filter is off) the call raises nothing and keeps exactly the rows whose value
\* is non-missing with lo <= value <= hi for each range, cells unchanged; so a
\* range with lo > hi keeps no row and every variable's count is zero.
C6_RangePredicate ==
    /\ FilterReturned =>
          \A k \in DOMAIN cols : IsRange(cols[k]) =>
              \A j \in Indices(filtered_data) :
                  InRange(filtered_data[j][cols[k].key], cols[k].value)
    /\ (/\ op = "filter_count"
        /\ ~only_long_term_outcomes
        /\ \A k \in DOMAIN cols : IsRange(cols[k])) =>
          /\ raised = "none"
          /\ \A i \in Indices(before) :
                 before[i].index \in Survivors <=>
                     \A k \in DOMAIN cols : InRange(before[i][cols[k].key], cols[k].value)
          /\ \A j \in Indices(filtered_data) :
                 filtered_data[j] = before[filtered_data[j].index]
          /\ Keys(result_counts) = variables
          /\ (\E k \in DOMAIN cols : cols[k].value[1] > cols[k].value[2]) =>
                 /\ filtered_data = <<>>
                 /\ \A n \in DOMAIN result_counts : result_counts[n].value = 0

\* C6 witness: a call with the one range [19, 21] on age kept a row whose age
\* is 19 and a row whose age is 21.
C6_Witness ==
    /\ FilterReturned
    /\ cols = <<Entry("age", <<Num(19), Num(21)>>)>>
    /\ ~only_long_term_outcomes
    /\ \E i, j \in Indices(filtered_data) :
           /\ filtered_data[i].age = <<Num(19)>>
           /\ filtered_data[j].age = <<Num(21)>>

HasMarker(t, r) == \E i \in RowsOf(t, r) : notna(t[i].long_term_outcomes_complete)

\* C7: with the long-term filter on, filter_count keeps exactly the rows that
\* belong to a subject having, in the table as passed in, at least one row with
\* a non-missing long_term_outcomes_complete, and that satisfy every entry of
\* cols; whether the row carrying the marker survives cols plays no part.
C7_LongTermFirst ==
    (FilterReturned /\ only_long_term_outcomes) =>
        \A i \in Indices(before) :
            before[i].index \in Survivors <=>
                /\ HasMarker(before, before[i].record_id)
                /\ \A k \in DOMAIN cols : Passes(before[i], cols[k])

\* C7 witness: the long-term filter is on, a subject's row carrying the marker
\* was removed by cols and another row of that subject, without the marker, was
\* kept.
C7_Witness ==
    /\ FilterReturned
    /\ only_long_term_outcomes
    /\ \E i, j \in Indices(before) :
           /\ before[i].record_id = before[j].record_id
           /\ notna(before[i].long_term_outcomes_complete)
           /\ before[i].index \notin Survivors
           /\ before[j].long_term_outcomes_complete = NaN
           /\ before[j].index \in Survivors

----------------------------------------------------------------------------
(* Calls of longitudinal_filter *)

MaxBucketRows == 2

\* rows that differ in tss (2.5, 3, 5, 7.5, 8, 13, 24.5, 25 or missing) and in
\* the two variables
BucketRows ==
    {[Blank EXCEPT !.tss = m, !.ikdc = v, !.marx = w] :
        m \in {NaN, <<5>>, <<6>>, <<10>>, <<15>>, <<16>>, <<26>>, <<49>>, <<50>>},
        v \in {NaN, <<61>>}, w \in {NaN, <<3>>}}

BucketTables == {WithIndex(t) : t \in SeqsUpTo(BucketRows, MaxBucketRows)}

InitLongitudinal ==
    /\ df \in BucketTables
    /\ before = df
    /\ InitRest

\* longitudinal_counts = longitudinal_filter(filtered_data, timepoints, variables)
LongitudinalFilter ==
    /\ op = "none"
    /\ op' = "longitudinal_filter"
    /\ before' = df
    /\ df' = df
    /\ longitudinal_counts' = longitudinal_filter(df, timepoints, variables)
    /\ UNCHANGED <<columns, cols, only_long_term_outcomes, result_counts,
                   filtered_data, raised>>

NextLongitudinal == LongitudinalFilter \/ Rerun

SpecLongitudinal == InitLongitudinal /\ [][NextLongitudinal]_vars

----------------------------------------------------------------------------
(* Properties of longitudinal_filter, over SpecLongitudinal *)

\* the rows of the input with the variable non-missing and lo <= tss < hi
CountIn(t, var, lo, hi) ==
    Cardinality({i \in Indices(t) :
        /\ notna(t[i][var])
        /\ notna(t[i].tss) /\ lo <= t[i].tss[1] /\ t[i].tss[1] < hi})

RECURSIVE SumValues(_)
SumValues(d) == IF d = <<>> THEN 0 ELSE Head(d).value + SumValues(Tail(d))

\* C8 as stated: the outer keys of the result are the bucket labels, in declared
\* order, and the inner keys are the variable names.
C8_KeyedByBucket ==
    op = "longitudinal_filter" =>
        /\ Keys(longitudinal_counts) = Keys(timepoints)
        /\ \A n \in DOMAIN longitudinal_counts :
               Keys(longitudinal_counts[n].value) = variables

\* C8, amended: the outer keys of the result are the variable names, in the
\* order of the variable list, the inner keys are the bucket labels, in declared
\* order, and result[variable][label] is the number of rows of the input with
\* lo <= tss < hi for that bucket and the variable non-missing.
C8_KeyedByVariable ==
    op = "longitudinal_filter" =>
        /\ Keys(longitudinal_counts) = variables
        /\ \A k \in DOMAIN longitudinal_counts :
               /\ Keys(longitudinal_counts[k].value) = Keys(timepoints)
               /\ \A n \in DOMAIN timepoints :
                      longitudinal_counts[k].value[n].value =
                          CountIn(df, variables[k],
                                  timepoints[n].value[1], timepoints[n].value[2])

\* C8 witness: a call returned result["ikdc"]["5-7 months"] = 1 and
\* result["marx"]["5-7 months"] = 0.
C8_Witness ==
    /\ op = "longitudinal_filter"
    /\ Get(Get(longitudinal_counts, "ikdc"), "5-7 months") = 1
    /\ Get(Get(longitudinal_counts, "marx"), "5-7 months") = 0

\* the buckets of timepoints that select a row
BucketsOf(row) ==
    {timepoints[n].key : n \in {m \in DOMAIN timepoints :
                                    InBucket(row.tss, timepoints[m].value)}}

\* C9: bucket partition.  Every row with tss in [3, 25) is selected by exactly
\* one bucket (7.5 and 5 by "5-7 months" only, 8 by "8-12 months" only), every
\* row with tss missing or outside [3, 25) by none, and for each variable the
\* bucket counts returned add up to the number of input rows with tss in
\* [3, 25) and that variable non-missing.
C9_BucketPartition ==
    op = "longitudinal_filter" =>
        /\ \A i \in Indices(df) :
               IF notna(df[i].tss) /\ Num(3) <= df[i].tss[1] /\ df[i].tss[1] < Num(25)
               THEN Cardinality(BucketsOf(df[i])) = 1
               ELSE BucketsOf(df[i]) = {}
        /\ \A i \in Indices(df) :
               /\ df[i].tss \in {<<15>>, <<Num(5)>>} => BucketsOf(df[i]) = {"5-7 months"}
               /\ df[i].tss = <<Num(8)>> => BucketsOf(df[i]) = {"8-12 months"}
        /\ \A k \in DOMAIN longitudinal_counts :
               SumValues(longitudinal_counts[k].value) =
                   CountIn(df, longitudinal_counts[k].key, Num(3), Num(25))

\* C9 witness: the input had a row with tss 5 and a row with tss 25, both with
\* ikdc non-missing, and the bucket counts of ikdc are 0, 1, 0, 0.
C9_Witness ==
    /\ op = "longitudinal_filter"
    /\ \E i, j \in Indices(df) :
           /\ df[i].tss = <<Num(5)>> /\ notna(df[i].ikdc)
           /\ df[j].tss = <<Num(25)>> /\ notna(df[j].ikdc)
    /\ [n \in DOMAIN timepoints |-> Get(longitudinal_counts, "ikdc")[n].value]
           = <<0, 1, 0, 0>>

----------------------------------------------------------------------------
(* The page script from its widgets to its results:
   pages/Longitudinal.py 151-208 (pages/1_Original.py 116-170 is the same
   without the call of longitudinal_filter) *)

MaxPageRows == 2

\* rows that differ in age (19, 20.5 or missing), tss (-1.5, 1.5 or missing),
\* and ikdc
PageRows ==
    {[Blank EXCEPT !.age = a, !.tss = m, !.ikdc = v, !.sex_dashboard = <<"Female">>,
                   !.graft_dashboard2 = <<"Other">>, !.prior_aclr = <<1>>] :
        a \in {NaN, <<38>>, <<41>>}, m \in {NaN, <<-3>>, <<3>>},
        v \in {NaN, <<61>>}}

PageTables == {WithIndex(t) : t \in SeqsUpTo(PageRows, MaxPageRows)}

\* what st.multiselect can return for each filter (a list of chosen options)
SexSelections == {<<>>, <<"Female">>, <<"Male">>}
GraftSelections == {<<>>, <<"Other">>}
PriorSelections == {<<>>, <<"Yes">>}

\* [1 if v == "Yes" else 0 for v in selected_values]
YesNo(selected) == [k \in DOMAIN selected |-> IF selected[k] = "Yes" THEN 1 ELSE 0]

\* if selected_values: cols[column] = selected_values
AddIfSelected(column, selected) ==
    IF selected # <<>> THEN <<[key |-> column, value |-> selected]>> ELSE <<>>

NotnaValues(t, column) == {t[i][column][1] : i \in {j \in Indices(t) : notna(t[j][column])}}

\* int(data[column].min()): min() skips NaN
SliderMin(t, column) == int(SetMin(NotnaValues(t, column)))

\* int(data[column].max() + 1)
SliderMax(t, column) == int(SetMax(NotnaValues(t, column)) + Num(1))

\* the (low, high) pairs an integer range slider on [lo, hi] can return
SliderValues(lo, hi) == {<<Num(a), Num(b)>> : a, b \in lo..hi} \cap
                        {r \in (Int \X Int) : r[1] <= r[2]}

InitPage ==
    /\ df \in PageTables
    /\ before = df
    /\ InitRest

\* a column with no non-missing value has min() = NaN, and int(NaN) raises
\* ValueError where the slider bounds are computed
ApplyFiltersFails ==
    /\ op = "none"
    /\ NotnaValues(df, "age") = {} \/ NotnaValues(df, "tss") = {}
    /\ op' = "apply_filters"
    /\ raised' = "ValueError"
    /\ before' = df
    /\ UNCHANGED <<df, columns, cols, only_long_term_outcomes, result_counts,
                   filtered_data, longitudinal_counts>>

\* one run of the script with "Apply Filters" pressed: cols is built from the
\* widgets, then filter_count and longitudinal_filter are called
ApplyFilters ==
    /\ op = "none"
    /\ NotnaValues(df, "age") # {}
    /\ NotnaValues(df, "tss") # {}
    /\ \E sex \in SexSelections, graft \in GraftSelections, prior \in PriorSelections,
          age_range \in SliderValues(SliderMin(df, "age"), SliderMax(df, "age")),
          tss_range \in SliderValues(SliderMin(df, "tss"), SliderMax(df, "tss")),
          long_term \in BOOLEAN :
        LET c == AddIfSelected("sex_dashboard", sex)
                   \o AddIfSelected("graft_dashboard2", graft)
                   \o AddIfSelected("prior_aclr", YesNo(prior))
                   \o <<[key |-> "age", value |-> age_range],
                        [key |-> "tss", value |-> tss_range]>>
            r == filter_count(df, c, variables, long_term)
        IN  /\ op' = "apply_filters"
            /\ cols' = c
            /\ only_long_term_outcomes' = long_term
            /\ before' = df
            /\ df' = df
            /\ result_counts' = r.counts
            /\ filtered_data' = r.filtered
            /\ raised' = r.raised
            /\ longitudinal_counts' = longitudinal_filter(r.filtered, timepoints, variables)
            /\ UNCHANGED columns

NextPage == ApplyFilters \/ ApplyFiltersFails \/ Rerun

SpecPage == InitPage /\ [][NextPage]_vars

----------------------------------------------------------------------------
(* Property of the page, over SpecPage *)

\* cols when every widget is left as the page shows it: no selection, both
\* sliders on (int(min), int(max + 1))
DefaultCols(t) ==
    <<[key |-> "age",
       value |-> <<Num(SliderMin(t, "age")), Num(SliderMax(t, "age"))>>],
      [key |-> "tss",
       value |-> <<Num(SliderMin(t, "tss")), Num(SliderMax(t, "tss"))>>]>>

\* C10: "leave blank to select all".  With no multiselect selection, the
\* long-term checkbox off and both sliders left on their defaults, filter_count
\* keeps every row of the table, so each variable's count is its number of
\* non-missing cells in the whole table.
C10_BlankSelectsAll ==
    (/\ op = "apply_filters"
     /\ raised = "none"
     /\ ~only_long_term_outcomes
     /\ cols = DefaultCols(before)) =>
        /\ filtered_data = before
        /\ \A k \in DOMAIN result_counts :
               result_counts[k].value = NotnaSum(before, result_counts[k].key)

====
